---- MODULE Spec2Model ----
(***************************************************************************)
(* Model of MsPacmanRL.py: the REINFORCE training loop (train), the play   *)
(* loop (run), the process entry point (main) with checkpoint save/load,   *)
(* and the pure helpers discount_rewards, discount_with_rewards,           *)
(* choose_action, preprocess_observations and update_weights.              *)
(*                                                                         *)
(* Numbers.  A float is modelled as an exact fraction <<n, d>> with d > 0; *)
(* <<0, 0>> is NaN (the result of 0.0 / 0.0).  Each weight matrix is       *)
(* modelled by one representative entry.  The RMSProp step divides by a    *)
(* square root, so a weight is kept as the exact symbolic sum              *)
(*   base + SUM lr * g / sqrt(E + epsilon)                                 *)
(* i.e. as the random draw it started from and the list of steps applied.  *)
(***************************************************************************)
EXTENDS Integers, Sequences, FiniteSets, TLC

\* ------------------------------------------------------------------ bounds
MaxInvocations == 2     \* process starts (python MsPacmanRL.py ...) in a behaviour
MaxE == 3               \* largest value of the -e argument
MaxEpisodeLen == 2      \* the environment signals done by this many steps
MaxLen == 3             \* longest reward vector handed to discount_rewards alone

\* ------------------------------------------------------------- fractions
NaN == <<0, 0>>
Zero == <<0, 1>>
Rat(i) == <<i, 1>>
IsNaN(x) == x[2] = 0

Abs(i) == IF i < 0 THEN -i ELSE i

\* The arithmetic is written as functions so that each operand is evaluated once.
Floats == Int \X Int

GCD[a \in Nat, b \in Nat] == IF b = 0 THEN a ELSE GCD[b, a % b]

Norm[n \in Int, d \in Int] ==
    IF d = 0 THEN NaN
    ELSE LET g == GCD[Abs(n), Abs(d)]
             s == IF d < 0 THEN -1 ELSE 1
         IN  <<(s * n) \div g, (s * d) \div g>>

RatAdd[a \in Floats, b \in Floats] ==
    IF IsNaN(a) \/ IsNaN(b) THEN NaN
    ELSE LET g == GCD[a[2], b[2]]
         IN  Norm[a[1] * (b[2] \div g) + b[1] * (a[2] \div g), (a[2] \div g) * b[2]]

RatNeg[a \in Floats] == IF IsNaN(a) THEN NaN ELSE <<-a[1], a[2]>>
RatSub[a \in Floats, b \in Floats] == RatAdd[a, RatNeg[b]]

RatMul[a \in Floats, b \in Floats] ==
    IF IsNaN(a) \/ IsNaN(b) THEN NaN
    ELSE LET g1 == GCD[Abs(a[1]), b[2]]
             g2 == GCD[Abs(b[1]), a[2]]
         IN  Norm[(a[1] \div g1) * (b[1] \div g2), (a[2] \div g2) * (b[2] \div g1)]

\* a / b as numpy computes it on floats: 0/0 is nan (only 0/0 and finite/finite
\* with b # 0 occur in the program; x/0 with x # 0 would be inf)
RatDiv[a \in Floats, b \in Floats] ==
    IF IsNaN(a) \/ IsNaN(b) THEN NaN
    ELSE IF b[1] = 0 THEN NaN
    ELSE RatMul[a, Norm[b[2], b[1]]]

SumSeq[s \in Seq(Floats)] == IF s = <<>> THEN Zero ELSE RatAdd[s[1], SumSeq[Tail(s)]]

\* np.mean
Mean[s \in Seq(Floats)] == RatDiv[SumSeq[s], Rat(Len(s))]

\* x - np.mean(x), elementwise
Shifted[s \in Seq(Floats), m \in Floats] == [t \in DOMAIN s |-> RatSub[s[t], m]]
Centred[s \in Seq(Floats)] == Shifted[s, Mean[s]]

\* np.std(x) ** 2: the mean of the squared deviations from the mean
MeanSquare[c \in Seq(Floats)] == Mean[[t \in DOMAIN c |-> RatMul[c[t], c[t]]]]
Variance[s \in Seq(Floats)] == MeanSquare[Centred[s]]

\* ------------------------------------------------------ discount_rewards
\* the loop without its reset at a nonzero reward
RECURSIVE DiscountLoopNoReset(_, _, _, _, _)
DiscountLoopNoReset(rewards, gamma, t, running_add, discounted_rewards) ==
    IF t = 0 THEN discounted_rewards
    ELSE LET added == RatAdd[RatMul[running_add, gamma], rewards[t]]
         IN  DiscountLoopNoReset(rewards, gamma, t - 1, added,
                                 [discounted_rewards EXCEPT ![t] = added])

\* loop body of discount_rewards for index t (1-based here), running backwards
RECURSIVE DiscountLoop(_, _, _, _, _)
DiscountLoop(rewards, gamma, t, running_add, discounted_rewards) ==
    IF t = 0 THEN discounted_rewards
    ELSE LET reset == IF rewards[t] # Zero THEN Zero ELSE running_add
             added == RatAdd[RatMul[reset, gamma], rewards[t]]
         IN  DiscountLoop(rewards, gamma, t - 1, added,
                          [discounted_rewards EXCEPT ![t] = added])

discount_rewards(rewards, gamma) ==
    DiscountLoop(rewards, gamma, Len(rewards), Zero, [t \in DOMAIN rewards |-> Zero])

\* A value the model does not compute (an activation, a probability, a product with
\* one) is kept as "fin" (some finite float) or "nan".
\* x / np.std(...): the standard deviation is zero exactly when the variance is, and
\* then every centred entry is 0.0, so the quotient is 0.0 / 0.0
OverStd(centred, variance) ==
    IF IsNaN(centred) \/ IsNaN(variance) \/ variance = Zero THEN "nan" ELSE "fin"

Times(a, b) == IF a = "nan" \/ b = "nan" THEN "nan" ELSE "fin"

discount_with_rewards(gradient_log_p, episode_rewards, gamma) ==
    LET Weighted[centred \in Seq(Floats), variance \in Floats] ==
            [t \in DOMAIN centred |->
                Times(gradient_log_p[t], OverStd(centred[t], variance))]
        Standardized[discounted_episode_rewards \in Seq(Floats)] ==
            Weighted[Centred[discounted_episode_rewards],
                     Variance[discounted_episode_rewards]]
    IN  Standardized[discount_rewards(episode_rewards, gamma)]

\* ---------------------------------------------------------------- network
Layers == {"1", "2"}

\* the weights main() draws with np.random.randn: draw number `draw`, no step applied
InitialWeights(draw) == [l \in Layers |-> [base |-> draw, steps |-> <<>>]]

ZeroDict == [l \in Layers |-> Zero]

\* a step is <<learning_rate, g, expectation_g_squared>>
WeightIsNaN(w) == \E i \in DOMAIN w.steps : IsNaN(w.steps[i][2]) \/ IsNaN(w.steps[i][3])
HasNaN(weights) == \E l \in Layers : WeightIsNaN(weights[l])

\* softmax(relu(W1 . x) . W2): finite for finite weights, nan once a weight is nan
apply_neural_nets(weights) == IF HasNaN(weights) THEN "nan" ELSE "fin"

\* dC_dw1 and dC_dw2 are dot products over the episode's steps: nan if any factor is
\* nan (nan * 0 is nan, and relu keeps nan), else the finite value `value`
compute_gradient(gradient_log_p, weights, value) ==
    [l \in Layers |->
        IF (\E t \in DOMAIN gradient_log_p : gradient_log_p[t] = "nan") \/ HasNaN(weights)
        THEN NaN ELSE Rat(value[l])]

\* g_dict[layer_name] += gradient[layer_name]
Accumulate(g_dict, gradient) == [l \in Layers |-> RatAdd[g_dict[l], gradient[l]]]

update_weights(weights, expectation_g_squared, g_dict, decay_rate, learning_rate) ==
    LET e2 == [l \in Layers |->
                  RatAdd[RatMul[decay_rate, expectation_g_squared[l]],
                         RatMul[RatSub[Rat(1), decay_rate], RatMul[g_dict[l], g_dict[l]]]]]
    IN  [weights |-> [l \in Layers |->
                         [weights[l] EXCEPT
                            !.steps = Append(@, <<learning_rate, g_dict[l], e2[l]>>)]],
         expectation_g_squared |-> e2,
         g_dict |-> ZeroDict]

\* the test taken on the counter before its increment
ShouldUpdateOffByOne(episode_number, batch_size) == (episode_number - 1) % batch_size = 0

\* the test written as a threshold instead of a cadence
ShouldUpdateAtLeast(episode_number, batch_size) == episode_number >= batch_size

\* if episode_number % batch_size == 0
ShouldUpdate(episode_number, batch_size) == episode_number % batch_size = 0

\* ---------------------------------------------------------- observations
None == <<>>
\* a frame is its flattened pixel vector; np.zeros(input_dimensions) is Zeros
Zeros == <<0>>
VecSub(a, b) == [i \in DOMAIN a |-> a[i] - b[i]]

preprocess_observations(input_observation, prev_processed_observation) ==
    [input_observation |->
        IF prev_processed_observation # None
        THEN VecSub(input_observation, prev_processed_observation)
        ELSE Zeros,
     prev_processed_observations |-> input_observation]

\* ------------------------------------------------------------------ state
VARIABLES
    pc,                          \* "init", "train" (in train's loop), "run", "exit"
    clock,                       \* process starts so far; datetime.now() of the run
    files,                       \* the checkpoints in weights/ a later start is given
    env,                         \* the environment's value ranges (fixed by Init)
    env_frames,                  \* the environment's last two frames since its reset
    episode_number, end_episode, max_episode,
    weights, g_dict, expectation_g_squared,
    batch_size, gamma, learning_rate, decay_rate,
    reward_sum, episode_rewards,
    observation, prev_processed_observations, processed_observations,
    entry,                       \* history: the arguments train()/run() was entered with
    pending,                     \* history: exact gradient sum since the last update
    run_sum,                     \* history: gradient sum of this run's episodes
    ca,                          \* choose_action called alone
    dr                           \* discount_rewards called alone

trainvars == <<episode_number, end_episode, max_episode, weights, g_dict,
               expectation_g_squared, batch_size, gamma, learning_rate, decay_rate,
               reward_sum, episode_rewards>>
obsvars == <<observation, prev_processed_observations, processed_observations,
             env_frames>>
procvars == <<pc, clock, files, env, entry>>
histvars == <<pending, run_sum>>
vars == <<procvars, histvars, trainvars, obsvars, ca, dr>>

\* defaults of main(), lines 185-190
DefaultHyper ==
    [gamma |-> <<99, 100>>, batch_size |-> 5,
     learning_rate |-> <<1, 10000>>, decay_rate |-> <<99, 100>>]

\* a checkpoint found in weights/ before the first start: written after 0 episodes by
\* a training whose hyperparameters were not the defaults
OtherHyper ==
    [gamma |-> <<1, 2>>, batch_size |-> 2,
     learning_rate |-> <<1, 1000>>, decay_rate |-> <<1, 2>>]

\* the config dictionary train() pickles, lines 367-376
SaveConfig(w, ep, rs, g, bs, lr, dc) ==
    [weights |-> w, episode_number |-> ep, reward_sum |-> rs,
     hyperparameter |-> [gamma |-> g, batch_size |-> bs,
                         learning_rate |-> lr, decay_rate |-> dc]]

\* main() forgetting to take batch_size from the config
LoadConfigKeepsBatch(config) ==
    [weights |-> config.weights,
     episode_number |-> config.episode_number,
     gamma |-> config.hyperparameter.gamma,
     learning_rate |-> config.hyperparameter.learning_rate,
     decay_rate |-> config.hyperparameter.decay_rate,
     batch_size |-> DefaultHyper.batch_size]

\* what main() takes from a loaded config, lines 224-232
LoadConfig(config) ==
    [weights |-> config.weights,
     episode_number |-> config.episode_number,
     gamma |-> config.hyperparameter.gamma,
     learning_rate |-> config.hyperparameter.learning_rate,
     decay_rate |-> config.hyperparameter.decay_rate,
     batch_size |-> config.hyperparameter.batch_size]

\* the state of the training that wrote a checkpoint, as it was in memory
Memory(w, ep, gd, egs, pend, g, bs, lr, dc) ==
    [weights |-> w, episode_number |-> ep, g_dict |-> gd,
     expectation_g_squared |-> egs, pending |-> pend,
     gamma |-> g, batch_size |-> bs, learning_rate |-> lr, decay_rate |-> dc]

OtherCheckpoint ==
    [name |-> <<0, 0>>,
     config |-> SaveConfig(InitialWeights(0), 0, 0, OtherHyper.gamma,
                           OtherHyper.batch_size, OtherHyper.learning_rate,
                           OtherHyper.decay_rate),
     mem |-> Memory(InitialWeights(0), 0, ZeroDict, ZeroDict, ZeroDict,
                    OtherHyper.gamma, OtherHyper.batch_size,
                    OtherHyper.learning_rate, OtherHyper.decay_rate)]

NoEntry == [mode |-> "none"]

MainInit ==
    /\ pc = "init" /\ clock = 0 /\ files = {OtherCheckpoint}
    /\ env_frames = <<>>
    /\ episode_number = 0 /\ end_episode = 0 /\ max_episode = 0
    /\ weights = InitialWeights(0) /\ g_dict = ZeroDict
    /\ expectation_g_squared = ZeroDict
    /\ batch_size = DefaultHyper.batch_size /\ gamma = DefaultHyper.gamma
    /\ learning_rate = DefaultHyper.learning_rate
    /\ decay_rate = DefaultHyper.decay_rate
    /\ reward_sum = 0 /\ episode_rewards = <<>>
    /\ observation = None /\ prev_processed_observations = None
    /\ processed_observations = None
    /\ entry = NoEntry /\ pending = ZeroDict /\ run_sum = ZeroDict

CaIdle == [pc |-> "off"]
DrIdle == [pc |-> "off"]

\* the learning claims: one frame value, rewards 0/1, one finite gradient
LearnEnv ==
    [frames |-> {<<0>>}, rewards |-> {0, 1},
     grads |-> {[l \in Layers |-> IF l = "1" THEN 1 ELSE 2]}]
\* the observation claims: two frame values, one reward and gradient value
FrameEnv ==
    [frames |-> {<<0>>, <<1>>}, rewards |-> {0}, grads |-> {[l \in Layers |-> 1]}]

Init == MainInit /\ env = LearnEnv /\ ca = CaIdle /\ dr = DrIdle

\* ------------------------------------------------------------------ main()
\* python MsPacmanRL.py -mode train -e e [-c file]: main() up to the head of train()'s
\* loop (lines 157-256 and 304-306).  c = None is a start without -c.
MainTrain(e, c) ==
    /\ pc \in {"init", "exit"} /\ clock < MaxInvocations
    /\ \E frame \in env.frames :
         LET fresh == [weights |-> InitialWeights(clock + 1), episode_number |-> 0,
                       gamma |-> DefaultHyper.gamma,
                       learning_rate |-> DefaultHyper.learning_rate,
                       decay_rate |-> DefaultHyper.decay_rate,
                       batch_size |-> DefaultHyper.batch_size]
             used == IF c = None THEN fresh
                     ELSE LoadConfig((CHOOSE f \in files : f.name = c).config)
         IN  /\ pc' = "train" /\ clock' = clock + 1
             /\ observation' = frame /\ env_frames' = <<frame>>
             /\ prev_processed_observations' = None
             /\ processed_observations' = None
             /\ weights' = used.weights
             /\ episode_number' = used.episode_number
             /\ gamma' = used.gamma /\ learning_rate' = used.learning_rate
             /\ decay_rate' = used.decay_rate /\ batch_size' = used.batch_size
             /\ g_dict' = ZeroDict /\ expectation_g_squared' = ZeroDict
             /\ max_episode' = e /\ end_episode' = used.episode_number + e
             /\ reward_sum' = 0 /\ episode_rewards' = <<>>
             /\ entry' = [mode |-> "train", c |-> c, max_episode |-> e,
                          weights |-> used.weights,
                          episode_number |-> used.episode_number,
                          g_dict |-> ZeroDict, expectation_g_squared |-> ZeroDict,
                          gamma |-> used.gamma, batch_size |-> used.batch_size,
                          learning_rate |-> used.learning_rate,
                          decay_rate |-> used.decay_rate]
             /\ pending' = IF c = None THEN ZeroDict
                           ELSE (CHOOSE f \in files : f.name = c).mem.pending
             /\ run_sum' = ZeroDict
    /\ UNCHANGED <<files, env, ca, dr>>

\* python MsPacmanRL.py -mode run -c file: main() and run()'s pickle.load
MainRun(c) ==
    /\ pc \in {"init", "exit"} /\ clock < MaxInvocations
    /\ \E frame \in env.frames :
         /\ pc' = "run" /\ clock' = clock + 1
         /\ observation' = frame /\ env_frames' = <<frame>>
         /\ prev_processed_observations' = None
         /\ processed_observations' = None
         /\ weights' = (CHOOSE f \in files : f.name = c).config.weights
         /\ episode_number' = 0 /\ end_episode' = 0 /\ max_episode' = 0
         /\ gamma' = DefaultHyper.gamma /\ learning_rate' = DefaultHyper.learning_rate
         /\ decay_rate' = DefaultHyper.decay_rate
         /\ batch_size' = DefaultHyper.batch_size
         /\ g_dict' = ZeroDict /\ expectation_g_squared' = ZeroDict
         /\ reward_sum' = 0 /\ episode_rewards' = <<>>
         /\ entry' = [mode |-> "run", c |-> c]
         /\ pending' = ZeroDict /\ run_sum' = ZeroDict
    /\ UNCHANGED <<files, env, ca, dr>>

\* ----------------------------------------------------------------- train()
\* the loop test off by one
LoopGuardInclusive(ep, end) == ep <= end

\* while episode_number < end_episode
LoopGuard(ep, end) == ep < end

\* if episode_number == end_episode
CheckpointGuard(ep, end) == ep = end

\* the environment's frame history after env.step returned `frame`
Stepped(frames, frame) == <<frames[Len(frames)], frame>>

\* one pass of train()'s loop body, lines 308-362: env.step returns
\* (frame, reward, done); reset_frame is what env.reset() returns if done;
\* value is the finite gradient the episode's dot products give
TrainIteration ==
    /\ pc = "train" /\ LoopGuard(episode_number, end_episode)
    /\ \E frame \in env.frames, reward \in env.rewards, done \in BOOLEAN :
         \E pre \in {preprocess_observations(observation, prev_processed_observations)},
            rewards \in {Append(episode_rewards, reward)} :
             /\ (~done) => Len(rewards) < MaxEpisodeLen
             /\ processed_observations' = pre.input_observation
             /\ IF done
                THEN \E reset_frame \in env.frames, value \in env.grads,
                        number \in {episode_number + 1} :
                      \* fake_label - up_probability, once per step of the episode
                      \E episode_gradient_log_ps \in
                            {[t \in DOMAIN rewards |-> apply_neural_nets(weights)]} :
                      \E discounted \in
                            {discount_with_rewards(episode_gradient_log_ps,
                                 [t \in DOMAIN rewards |-> Rat(rewards[t])], gamma)} :
                      \E gradient \in {compute_gradient(discounted, weights, value)} :
                      \E summed \in {Accumulate(g_dict, gradient)} :
                         /\ episode_number' = number
                         /\ IF ShouldUpdate(number, batch_size)
                            THEN \E updated \in
                                    {update_weights(weights, expectation_g_squared,
                                                    summed, decay_rate, learning_rate)} :
                                   /\ weights' = updated.weights
                                   /\ expectation_g_squared' =
                                         updated.expectation_g_squared
                                   /\ g_dict' = updated.g_dict
                                   /\ pending' = ZeroDict
                            ELSE /\ g_dict' = summed
                                 /\ pending' = [l \in Layers |->
                                                   RatAdd[pending[l], gradient[l]]]
                                 /\ UNCHANGED <<weights, expectation_g_squared>>
                         /\ run_sum' = [l \in Layers |-> RatAdd[run_sum[l], gradient[l]]]
                         /\ episode_rewards' = <<>>
                         /\ observation' = reset_frame
                         /\ env_frames' = <<reset_frame>>
                         /\ reward_sum' = 0
                         /\ prev_processed_observations' = None
                ELSE /\ episode_rewards' = rewards
                     /\ reward_sum' = reward_sum + reward
                     /\ observation' = frame
                     /\ env_frames' = Stepped(env_frames, frame)
                     /\ prev_processed_observations' = pre.prev_processed_observations
                     /\ UNCHANGED <<episode_number, weights, expectation_g_squared,
                                    g_dict, pending, run_sum>>
    /\ UNCHANGED <<pc, clock, files, env, entry, end_episode, max_episode,
                   batch_size, gamma, learning_rate, decay_rate, ca, dr>>

\* A later start is given the checkpoint found before the first start or the one
\* written last; older ones stay on disk and are not passed to -c again.
Kept(fs) == {f \in fs : f.name[1] = 0}

\* the loop is left: lines 364-385 write the checkpoint, then the process ends
TrainExit ==
    /\ pc = "train" /\ ~LoopGuard(episode_number, end_episode)
    /\ pc' = "exit"
    /\ files' = IF CheckpointGuard(episode_number, end_episode)
                THEN Kept(files) \cup
                     {[name |-> <<clock, episode_number>>,
                       config |-> SaveConfig(weights, episode_number, reward_sum, gamma,
                                             batch_size, learning_rate, decay_rate),
                       mem |-> Memory(weights, episode_number, g_dict,
                                      expectation_g_squared, pending, gamma,
                                      batch_size, learning_rate, decay_rate)]}
                ELSE files
    /\ UNCHANGED <<clock, env, entry, histvars, trainvars, obsvars, ca, dr>>

\* ------------------------------------------------------------------- run()
\* one pass of run()'s loop body, lines 268-279; env.reset()'s frame is dropped
RunIteration ==
    /\ pc = "run"
    /\ \E frame \in env.frames, done \in BOOLEAN, reset_frame \in env.frames :
         LET pre == preprocess_observations(observation, prev_processed_observations)
         IN  /\ processed_observations' = pre.input_observation
             /\ prev_processed_observations' = pre.prev_processed_observations
             /\ observation' = frame
             /\ IF done THEN env_frames' = <<reset_frame>>
                ELSE reset_frame = frame /\ env_frames' = Stepped(env_frames, frame)
    /\ UNCHANGED <<procvars, histvars, trainvars, ca, dr>>

\* the process is killed (run() has no other end)
RunKill ==
    /\ pc = "run" /\ pc' = "exit"
    /\ UNCHANGED <<clock, files, env, entry, histvars, trainvars, obsvars, ca, dr>>

FileNames == {f.name : f \in files}

Next ==
    \/ \E e \in 0..MaxE, c \in FileNames \cup {None} : MainTrain(e, c)
    \/ \E c \in FileNames : MainRun(c)
    \/ TrainIteration
    \/ TrainExit
    \/ RunIteration
    \/ RunKill

Spec == Init /\ [][Next]_vars

\* the process never stops between two statements, and the environment ends every
\* episode (MaxEpisodeLen)
FairSpec == Spec /\ WF_vars(TrainIteration) /\ WF_vars(TrainExit)

\* the same program with the environment's ranges chosen for the frames
ObsInit == MainInit /\ env = FrameEnv /\ ca = CaIdle /\ dr = DrIdle
ObsSpec == ObsInit /\ [][Next]_vars

\* ---------------------------------------------------------- choose_action
ActionCount == 4          \* columns of weights['2']
RandintLow == 1
RandintHigh == 5

\* probability.argmax(): the first index (from 0) of a largest entry
argmax(probability) ==
    CHOOSE i \in DOMAIN probability :
        /\ \A j \in DOMAIN probability : probability[j] <= probability[i]
        /\ \A j \in DOMAIN probability : j < i => probability[j] < probability[i]

\* np.random.randint(1, 5): low inclusive, high exclusive
RandintRange == RandintLow..(RandintHigh - 1)

\* random_value >= 0.1, the draw being given in tenths
Exploits(random_value) == random_value >= 1

\* choose_action with its two draws made explicit
choose_action(probability, random_value, randint) ==
    IF Exploits(random_value) THEN argmax(probability) ELSE randint

\* softmax outputs, as scores: only their order matters to argmax
Probabilities == [0..(ActionCount - 1) -> 0..2]
\* np.random.uniform() in [0, 1), in tenths
UniformDraws == 0..9

ChooseInit ==
    /\ MainInit /\ env = LearnEnv /\ dr = DrIdle
    /\ ca \in {[pc |-> "call", probability |-> p] : p \in Probabilities}

ChooseAction ==
    /\ ca.pc = "call"
    /\ \E random_value \in UniformDraws, randint \in RandintRange :
         ca' = [pc |-> "returned", probability |-> ca.probability,
                random_value |-> random_value,
                action |-> choose_action(ca.probability, random_value, randint)]
    /\ UNCHANGED <<procvars, histvars, trainvars, obsvars, dr>>

ChooseSpec == ChooseInit /\ [][ChooseAction]_vars

\* -------------------------------------------------- discount_rewards alone
RewardValues == {-1, 0, 1}
Gammas == {<<1, 2>>, <<99, 100>>, <<1, 1>>}

RECURSIVE SeqsUpTo(_, _)
SeqsUpTo(S, n) ==
    IF n = 0 THEN {<<>>}
    ELSE LET shorter == SeqsUpTo(S, n - 1)
         IN  shorter \cup {Append(q, x) : q \in shorter, x \in S}

DiscountInit ==
    /\ MainInit /\ env = LearnEnv /\ ca = CaIdle
    /\ dr \in {[pc |-> "call", rewards |-> r, gamma |-> g] :
                  r \in SeqsUpTo(RewardValues, MaxLen), g \in Gammas}

DiscountRewards ==
    /\ dr.pc = "call"
    /\ dr' = [pc |-> "returned", rewards |-> dr.rewards, gamma |-> dr.gamma,
              discounted_rewards |->
                  discount_rewards([t \in DOMAIN dr.rewards |-> Rat(dr.rewards[t])],
                                   dr.gamma)]
    /\ UNCHANGED <<procvars, histvars, trainvars, obsvars, ca>>

DiscountSpec == DiscountInit /\ [][DiscountRewards]_vars

\* ================================================================== claims
InTrain == entry.mode = "train" /\ pc \in {"train", "exit"}
\* the checkpoint the running training was resumed from
Resumed == CHOOSE f \in files : f.name = entry.c
\* weight updates applied since train() was entered
Updates == Len(weights["1"].steps) - Len(entry.weights["1"].steps)
\* multiples of bs in (from, to]
Boundaries(from, to, bs) == (to \div bs) - (from \div bs)
\* w is w0 with exactly n more steps applied
ExtendsBy(w0, w, n) ==
    /\ w.base = w0.base
    /\ Len(w.steps) = Len(w0.steps) + n
    /\ SubSeq(w.steps, 1, Len(w0.steps)) = w0.steps
\* no NaN has arisen in the training or in the checkpoints kept
NoNaNSoFar ==
    /\ ~HasNaN(weights)
    /\ \A l \in Layers : ~IsNaN(g_dict[l]) /\ ~IsNaN(pending[l]) /\ ~IsNaN(run_sum[l])
    /\ \A f \in files : \A l \in Layers :
          ~IsNaN(f.mem.pending[l]) /\ ~IsNaN(f.mem.g_dict[l])
\* checkpoints the running process has written
Written == {f \in files : f.name[1] = clock}

\* C1: in train(), a pass of the loop applies update_weights exactly when it completes
\* an episode and the incremented episode_number is a multiple of batch_size; never
\* in the middle of an episode, never skipped at a multiple.
C1_UpdateCadence ==
    [][pc = "train" =>
          ((weights' # weights) <=>
              (episode_number' = episode_number + 1
                 /\ episode_number' % batch_size = 0))]_vars

C1_Witness ==
    /\ pc = "train" /\ entry.mode = "train"
    /\ episode_number > entry.episode_number
    /\ episode_number % batch_size = 0
    /\ Updates = 1 /\ g_dict = ZeroDict

\* C2 as stated: for every run of train(), batch_size episodes update the weights
\* exactly once, and batch_size - 1 episodes leave the weights as they were and
\* g_dict holding the sum of the run's episode gradients (looked at on the runs in
\* which no NaN arises).
C2_EveryRun ==
    (entry.mode = "train" /\ pc = "exit" /\ NoNaNSoFar) =>
        /\ max_episode = batch_size => Updates = 1
        /\ max_episode = batch_size - 1 => (weights = entry.weights /\ g_dict = run_sum)

\* C2 amended: the weights are those train() was entered with plus one update per
\* multiple of batch_size the episode counter has passed (so batch_size episodes
\* update them exactly once); a run entered with episode_number a multiple of
\* batch_size and trained for batch_size - 1 episodes leaves the weights as they
\* were and g_dict holding the sum of the run's episode gradients.
C2_RunFromBoundary ==
    InTrain =>
        /\ \A l \in Layers :
              ExtendsBy(entry.weights[l], weights[l],
                        Boundaries(entry.episode_number, episode_number, batch_size))
        /\ (pc = "exit" /\ max_episode = batch_size) => Updates = 1
        /\ (pc = "exit" /\ entry.episode_number % batch_size = 0
                /\ max_episode = batch_size - 1)
             => (weights = entry.weights /\ g_dict = run_sum)

C2_Witness ==
    /\ pc = "exit" /\ entry.mode = "train"
    /\ entry.episode_number % batch_size = 0
    /\ max_episode = batch_size - 1 /\ max_episode > 0
    /\ weights = entry.weights /\ g_dict # ZeroDict

\* C3: at every episode boundary of train(), g_dict is exactly the sum of the
\* gradients of the episodes completed since the last weight update, across a stop
\* at the episode limit and a resume from the checkpoint written there (looked at on
\* the runs in which no NaN arises).
C3_BufferIsExactSum ==
    (entry.mode = "train" /\ pc = "train" /\ episode_rewards = <<>> /\ NoNaNSoFar)
        => g_dict = pending

\* C4: a training resumed from a checkpoint is entered with the state the training
\* that wrote it had at that episode boundary: weights, optimizer state (g_dict,
\* expectation_g_squared), episode counter and hyperparameters; with batch_size and
\* episode_number restored its updates fall on the same episode numbers (looked at
\* on the runs in which no NaN arises).
C4_ResumeContinues ==
    (entry.mode = "train" /\ pc = "train" /\ entry.c # None /\ NoNaNSoFar) =>
        /\ entry.weights = Resumed.mem.weights
        /\ entry.episode_number = Resumed.mem.episode_number
        /\ entry.batch_size = Resumed.mem.batch_size
        /\ entry.g_dict = Resumed.mem.g_dict
        /\ entry.expectation_g_squared = Resumed.mem.expectation_g_squared

\* C5: train() ends (the environment ending every episode), with episode_number at
\* its value on entry plus max_episode, one more per completed episode; the run
\* writes exactly one checkpoint, when it ends and not earlier.
C5_TerminatesWithOneCheckpoint ==
    /\ [](pc = "train" => <>(pc = "exit"))
    /\ []((entry.mode = "train" /\ pc = "exit") =>
             /\ episode_number = entry.episode_number + max_episode
             /\ Cardinality(Written) = 1
             /\ \A f \in Written : f.config.episode_number = episode_number)
    /\ [](pc = "train" => Written = {})
    /\ [][(pc = "train" /\ pc' = "train") =>
             IF episode_rewards' = <<>>
             THEN episode_number' = episode_number + 1
             ELSE episode_number' = episode_number]_vars

C5_Witness ==
    /\ pc = "exit" /\ entry.mode = "train" /\ max_episode = MaxE
    /\ episode_number = entry.episode_number + MaxE
    /\ Cardinality(Written) = 1

\* C6: choose_action returns argmax when the draw is >= 0.1 and otherwise an index
\* of the same range 0..action_count-1; every returned action is in that range.
C6_ActionInRange ==
    ca.pc = "returned" =>
        /\ Exploits(ca.random_value) => ca.action = argmax(ca.probability)
        /\ ca.action \in 0..(ActionCount - 1)

\* C7: an episode whose rewards are all identical does not put NaN into g_dict or
\* the weights: the zero standard deviation is handled.
C7_NoNaN ==
    /\ \A l \in Layers : ~IsNaN(g_dict[l])
    /\ ~HasNaN(weights)

\* gamma ** n
RECURSIVE RatPow(_, _)
RatPow(x, n) == IF n = 0 THEN Rat(1) ELSE RatMul[x, RatPow(x, n - 1)]

\* rewards[k] * gamma^(k-t) for the first k >= t with rewards[k] # 0, else 0
ClosedForm(rewards, g, t) ==
    LET later == {k \in t..Len(rewards) : rewards[k] # 0}
    IN  IF later = {} THEN Zero
        ELSE LET k == CHOOSE i \in later : \A j \in later : i <= j
             IN  RatMul[Rat(rewards[k]), RatPow(g, k - t)]

\* C8: discount_rewards gives, at each step t, rewards[k] * gamma^(k-t) for the first
\* k >= t with a nonzero reward, and 0 if there is none.
C8_DiscountClosedForm ==
    dr.pc = "returned" =>
        /\ Len(dr.discounted_rewards) = Len(dr.rewards)
        /\ \A t \in DOMAIN dr.rewards :
              dr.discounted_rewards[t] = ClosedForm(dr.rewards, dr.gamma, t)

C8_Witness ==
    /\ dr.pc = "returned" /\ dr.gamma = <<1, 2>>
    /\ dr.rewards = <<0, 0, 1>>
    /\ dr.discounted_rewards = <<(<<1, 4>>), (<<1, 2>>), (<<1, 1>>)>>

\* C9: a training started with -c is entered with the weights, episode counter,
\* gamma, batch_size, learning_rate and decay_rate held when the checkpoint was
\* written, and these are the values its loop uses.
C9_RoundTrip ==
    (entry.mode = "train" /\ pc = "train" /\ entry.c # None) =>
        /\ entry.weights = Resumed.mem.weights
        /\ entry.episode_number = Resumed.mem.episode_number
        /\ end_episode = Resumed.mem.episode_number + max_episode
        /\ gamma = Resumed.mem.gamma
        /\ batch_size = Resumed.mem.batch_size
        /\ learning_rate = Resumed.mem.learning_rate
        /\ decay_rate = Resumed.mem.decay_rate

C9_Witness ==
    /\ pc = "train" /\ entry.mode = "train" /\ entry.c # None
    /\ entry.c[1] > 0 /\ entry.episode_number > 0
    /\ Len(entry.weights["1"].steps) > 0
    /\ weights = Resumed.mem.weights
    /\ batch_size # DefaultHyper.batch_size

\* C10: in train's and run's loop, the first call of preprocess_observations after
\* an environment reset is handed the reset frame and gives the zero vector; every
\* later call gives the environment's current frame minus its previous frame of
\* the same episode.
C10_FramesPerEpisode ==
    [][((pc = "run" \/ (pc = "train" /\ LoopGuard(episode_number, end_episode)))
          /\ pc' = pc) =>
          /\ observation = env_frames[Len(env_frames)]
          /\ processed_observations' =
                IF Len(env_frames) = 1 THEN Zeros
                ELSE VecSub(env_frames[2], env_frames[1])]_vars

====
